---- MODULE Spec2Model ----
(***************************************************************************)
(* Model of the build-orchestration wrappers of CppMltiAiChatUi:           *)
(*   MultipleAIApp/r.py  run-forwarding wrapper (argument split on '--',   *)
(*                       Popen, graceful-then-forced stop on interrupt)    *)
(*   MultipleAIApp/b.py  clean / build / run through subprocess.run        *)
(*   build.py            clean / build / test / run with a summary         *)
(* One behaviour is one execution of one of the three scripts.  The        *)
(* environment is the external toolchain (spawn may fail, a child exits    *)
(* with some code at some time), the file system (which solution and       *)
(* project files exist), the clock of the grace period and the user, who   *)
(* may send interrupts at any moment.                                      *)
(***************************************************************************)
EXTENDS Integers, Sequences, FiniteSets

VARIABLES
    script,         \* which wrapper runs: "r", "b" or "build"
    argv,           \* r.py: sys.argv (argv[1] is Python's sys.argv[0])
    args,           \* b.py, build.py: the parsed flags
    fs,             \* the set of paths for which os.path.exists is true
    pc,             \* position of the wrapper
    site,           \* where a subprocess.run / run_command call returns to
    script_args, app_args, cmd,
    child,          \* the child of the last spawn: "none", "live", "dead"
    childCode,      \* exit code of a dead child
    returncode,     \* result of the last completed wait
    status,         \* exit status of the wrapper once pc = "exited"
    nInterrupts,    \* interrupts delivered so far
    firstInt,       \* where and with which child the first interrupt arrived
    terminates, graceWaits, kills,  \* r.py: calls of terminate / wait(timeout) / kill
    elapsed,        \* r.py: seconds spent in wait(timeout=5)
    graceExpired,   \* r.py: TimeoutExpired was raised
    nSpawned,       \* children spawned so far
    phase,          \* phase the wrapper is in
    i,              \* loop index over solutions / test projects
    loop_ok,        \* build_project / run_tests: local build_success / test_success
    build_success, test_success, run_success,
    project_to_run,
    attempted,      \* build.py: phases whose function was called
    childFailed,    \* phases with a child that exited non-zero or did not spawn
    summary,        \* build.py: the printed summary lines <<phase, ok>>
    summaryPrinted

vars == <<script, argv, args, fs, pc, site, script_args, app_args, cmd, child,
          childCode, returncode, status, nInterrupts, firstInt, terminates,
          graceWaits, kills, elapsed, graceExpired, nSpawned, phase, i, loop_ok,
          build_success, test_success, run_success, project_to_run, attempted,
          childFailed, summary, summaryPrinted>>

(* Bounds of the model *)
MaxLen == 3
MaxInterrupts == 2

(* r.py line 59: process.wait(timeout=5) *)
GraceTimeout == 5

Sep == "--"
Tokens == {Sep, "-v", "x"}
ChildCodes == {0, 1, -15}
NoArgs == [clean |-> FALSE, test |-> FALSE, run |-> "None",
           skip_build |-> FALSE, configuration |-> "Release"]

Range(s) == {s[k] : k \in 1..Len(s)}
RECURSIVE Count(_, _)
Count(t, s) == IF s = <<>> THEN 0
               ELSE (IF Head(s) = t THEN 1 ELSE 0) + Count(t, Tail(s))
Min(S) == CHOOSE m \in S : \A n \in S : m <= n
Max(S) == CHOOSE m \in S : \A n \in S : m >= n

(* sys.exit(n): the status the parent sees is n modulo 256 *)
ExitStatus(n) == n % 256

----------------------------------------------------------------------------
(* r.py, argument splitting (lines 14-24).  Positions are those of the     *)
(* TLA+ sequence: Python's sys.argv[k] is argv[k+1].                       *)

(* faulty variant: splits at the last occurrence *)
LastDashIndex(a) == Max({k \in 1..Len(a) : a[k] = Sep})
(* sys.argv.index('--'): the first occurrence *)
DashIndex(a) == Min({k \in 1..Len(a) : a[k] = Sep})

(* faulty variant: does not drop the script's own name *)
ScriptArgsFromZero(a) ==
    IF Sep \in Range(a) THEN SubSeq(a, 1, DashIndex(a) - 1) ELSE a
(* sys.argv[1:dash_index], or sys.argv[1:] *)
ScriptArgs(a) ==
    IF Sep \in Range(a) THEN SubSeq(a, 2, DashIndex(a) - 1)
    ELSE SubSeq(a, 2, Len(a))

(* sys.argv[dash_index + 1:], or [] *)
AppArgs(a) ==
    IF Sep \in Range(a) THEN SubSeq(a, DashIndex(a) + 1, Len(a)) ELSE <<>>

(* r.py, invocation construction (lines 32-41) *)
RunPrefix == <<"dotnet", "run", "--project", "MultipleAIApp/MultipleAIApp.csproj",
               "--framework", "net8.0-desktop">>

(* faulty variant: emits the separator unconditionally *)
BuildCmdAlwaysSep(sa, aa) == RunPrefix \o sa \o <<Sep>> \o aa
BuildCmd(sa, aa) ==
    RunPrefix \o (IF sa # <<>> THEN sa ELSE <<>>)
              \o (IF aa # <<>> THEN <<Sep>> \o aa ELSE <<>>)

----------------------------------------------------------------------------
(* Bookkeeping shared by the actions *)

Exit(n) == /\ pc' = "exited"
           /\ status' = ExitStatus(n)

ctl == <<pc, status>>
inputs == <<script, argv, args, fs>>
rsplit == <<script_args, app_args>>
proc == <<child, childCode, nSpawned>>
ints == <<nInterrupts, firstInt>>
grace == <<terminates, graceWaits, kills, elapsed, graceExpired>>
flow == <<phase, i, loop_ok, build_success, test_success, run_success,
          project_to_run>>
report == <<attempted, summary, summaryPrinted>>

(* Popen / subprocess.run start a child *)
Spawn(c) == /\ cmd' = c
            /\ child' = "live"
            /\ nSpawned' = nSpawned + 1
            /\ UNCHANGED childCode

----------------------------------------------------------------------------
(* r.py *)

RSplit ==
    /\ pc = "r_split"
    /\ script_args' = ScriptArgs(argv)
    /\ app_args' = AppArgs(argv)
    /\ pc' = "r_chdir"
    /\ UNCHANGED <<inputs, site, cmd, proc, returncode, status, ints, grace,
                   flow, report, childFailed>>

(* lines 28-29; os.chdir may raise OSError, caught at line 71 *)
RChdir ==
    /\ pc = "r_chdir"
    /\ pc' \in {"r_cmd", "r_exc"}
    /\ UNCHANGED <<inputs, site, rsplit, cmd, proc, returncode, status, ints,
                   grace, flow, report, childFailed>>

RCmd ==
    /\ pc = "r_cmd"
    /\ cmd' = BuildCmd(script_args, app_args)
    /\ pc' = "r_popen"
    /\ UNCHANGED <<inputs, site, rsplit, proc, returncode, status, ints, grace,
                   flow, report, childFailed>>

(* line 47 *)
RPopenOk ==
    /\ pc = "r_popen"
    /\ Spawn(cmd)
    /\ phase' = "run"
    /\ pc' = "r_spawned"
    /\ UNCHANGED <<inputs, site, rsplit, returncode, status, ints, grace, i,
                   loop_ok, build_success, test_success, run_success,
                   project_to_run, report, childFailed>>

(* line 47 raising OSError (tool not found), caught at line 71 *)
RPopenFail ==
    /\ pc = "r_popen"
    /\ pc' = "r_exc"
    /\ childFailed' = childFailed \cup {"run"}
    /\ UNCHANGED <<inputs, site, rsplit, cmd, proc, returncode, status, ints,
                   grace, flow, report>>

(* the rest of Popen's constructor, the assignment of line 47 and the      *)
(* entry of the inner try at line 49: the child runs, the inner handler is *)
(* not yet in force                                                        *)
REnterTry ==
    /\ pc = "r_spawned"
    /\ pc' = "r_wait"
    /\ UNCHANGED <<inputs, site, rsplit, cmd, proc, returncode, status, ints,
                   grace, flow, report, childFailed>>

(* line 51: process.wait() returns once the child has exited *)
RWaitReturn ==
    /\ pc = "r_wait"
    /\ child = "dead"
    /\ returncode' = childCode
    /\ pc' = "r_check"
    /\ UNCHANGED <<inputs, site, rsplit, cmd, proc, status, ints, grace, flow,
                   report, childFailed>>

(* lines 52-54, or falling off the end of main *)
RCheck ==
    /\ pc = "r_check"
    /\ Exit(returncode)
    /\ UNCHANGED <<inputs, site, rsplit, cmd, proc, returncode, ints, grace,
                   flow, report, childFailed>>

(* line 56, entered by KeyboardInterrupt inside the inner try *)
RStopping ==
    /\ pc = "r_stopping"
    /\ pc' = "r_terminate"
    /\ UNCHANGED <<inputs, site, rsplit, cmd, proc, returncode, status, ints,
                   grace, flow, report, childFailed>>

(* line 57: process.terminate(); SIGTERM asks, the child decides *)
RTerminate ==
    /\ pc = "r_terminate"
    /\ terminates' = terminates + 1
    /\ pc' = "r_graceenter"
    /\ UNCHANGED <<inputs, site, rsplit, cmd, proc, returncode, status, ints,
                   graceWaits, kills, elapsed, graceExpired, flow, report,
                   childFailed>>

(* line 59: process.wait(timeout=5) starts its one grace period *)
RGraceEnter ==
    /\ pc = "r_graceenter"
    /\ graceWaits' = graceWaits + 1
    /\ elapsed' = 0
    /\ pc' = "r_gracewait"
    /\ UNCHANGED <<inputs, site, rsplit, cmd, proc, returncode, status, ints,
                   terminates, kills, graceExpired, flow, report, childFailed>>

(* line 59: a second of the grace period passes with the child alive *)
RGraceTick ==
    /\ pc = "r_gracewait"
    /\ child = "live"
    /\ elapsed < GraceTimeout
    /\ elapsed' = elapsed + 1
    /\ UNCHANGED <<inputs, site, rsplit, cmd, proc, returncode, status, ints,
                   terminates, graceWaits, kills, graceExpired, flow, report,
                   childFailed, pc>>

(* line 59: wait(timeout=5) returns, the child exited in time *)
RGraceReturn ==
    /\ pc = "r_gracewait"
    /\ child = "dead"
    /\ returncode' = childCode
    /\ pc' = "r_exit0"
    /\ UNCHANGED <<inputs, site, rsplit, cmd, proc, status, ints, grace, flow,
                   report, childFailed>>

(* faulty variant: the timeout fires without waiting out the grace period *)
TimeoutExpiredEarly == child = "live"
(* line 60: subprocess.TimeoutExpired *)
TimeoutExpired == child = "live" /\ elapsed = GraceTimeout

RGraceExpire ==
    /\ pc = "r_gracewait"
    /\ TimeoutExpired
    /\ graceExpired' = TRUE
    /\ pc' = "r_kill"
    /\ UNCHANGED <<inputs, site, rsplit, cmd, proc, returncode, status, ints,
                   terminates, graceWaits, kills, elapsed, flow, report,
                   childFailed>>

(* lines 61-62: process.kill(); SIGKILL cannot be refused *)
RKill ==
    /\ pc = "r_kill"
    /\ kills' = kills + 1
    /\ child' = "dead"
    /\ childCode' = IF child = "live" THEN -9 ELSE childCode
    /\ pc' = "r_exit0"
    /\ UNCHANGED <<inputs, site, rsplit, cmd, nSpawned, returncode, status,
                   ints, terminates, graceWaits, elapsed, graceExpired, flow,
                   report, childFailed>>

(* line 63 *)
RExit0 ==
    /\ pc = "r_exit0"
    /\ Exit(0)
    /\ UNCHANGED <<inputs, site, rsplit, cmd, proc, returncode, ints, grace,
                   flow, report, childFailed>>

(* lines 68-70 and 71-73 *)
ROuterHandlers ==
    /\ pc \in {"r_int", "r_exc"}
    /\ Exit(1)
    /\ UNCHANGED <<inputs, site, rsplit, cmd, proc, returncode, ints, grace,
                   flow, report, childFailed>>

RInnerTry == {"r_wait", "r_check"}
RInnerHandler == {"r_stopping", "r_terminate", "r_graceenter", "r_gracewait",
                  "r_kill", "r_exit0"}
ROuterTry == {"r_chdir", "r_cmd", "r_popen", "r_spawned"}


----------------------------------------------------------------------------
(* b.py *)

CleanCmdB == <<"dotnet", "clean", "MultipleAIApp.sln">>
BuildCmdB == <<"dotnet", "build", "MultipleAIApp.sln">>
RunCmdB == <<"dotnet", "run", "--project", "MultipleAIApp/MultipleAIApp.csproj",
             "--framework", "net8.0-desktop">>

(* the call subprocess.run(c, check=True) of phase ph, continuing at s *)
CallSubprocessRun(c, ph, s) ==
    /\ cmd' = c
    /\ phase' = ph
    /\ site' = s
    /\ pc' = "sr_spawn"

(* lines 13-17, before the try *)
BStart ==
    /\ pc = "b_start"
    /\ pc' = "b_chdir"
    /\ UNCHANGED <<inputs, site, rsplit, cmd, proc, returncode, status, ints,
                   grace, flow, report, childFailed>>

(* lines 21-22 *)
BChdir ==
    /\ pc = "b_chdir"
    /\ pc' \in {"b_clean", "b_exc"}
    /\ UNCHANGED <<inputs, site, rsplit, cmd, proc, returncode, status, ints,
                   grace, flow, report, childFailed>>

(* lines 24-26 *)
BClean ==
    /\ pc = "b_clean"
    /\ IF args.clean
       THEN CallSubprocessRun(CleanCmdB, "clean", "b_build")
       ELSE pc' = "b_build" /\ UNCHANGED <<cmd, phase, site>>
    /\ UNCHANGED <<inputs, rsplit, proc, returncode, status, ints, grace, i,
                   loop_ok, build_success, test_success, run_success,
                   project_to_run, report, childFailed>>

(* lines 28-29 *)
BBuild ==
    /\ pc = "b_build"
    /\ CallSubprocessRun(BuildCmdB, "build", "b_run")
    /\ UNCHANGED <<inputs, rsplit, proc, returncode, status, ints, grace, i,
                   loop_ok, build_success, test_success, run_success,
                   project_to_run, report, childFailed>>

(* lines 30-34 *)
BRun ==
    /\ pc = "b_run"
    /\ IF args.run
       THEN CallSubprocessRun(RunCmdB, "run", "b_end")
       ELSE pc' = "b_end" /\ UNCHANGED <<cmd, phase, site>>
    /\ UNCHANGED <<inputs, rsplit, proc, returncode, status, ints, grace, i,
                   loop_ok, build_success, test_success, run_success,
                   project_to_run, report, childFailed>>

(* main returns: the interpreter exits with status 0 *)
BEnd ==
    /\ pc = "b_end"
    /\ Exit(0)
    /\ UNCHANGED <<inputs, site, rsplit, cmd, proc, returncode, ints, grace,
                   flow, report, childFailed>>

(* subprocess.run starts the child *)
SrSpawnOk ==
    /\ pc = "sr_spawn"
    /\ Spawn(cmd)
    /\ pc' = "sr_wait"
    /\ UNCHANGED <<inputs, site, rsplit, returncode, status, ints, grace, flow,
                   report, childFailed>>

(* subprocess.run raises OSError, caught at line 42 *)
SrSpawnFail ==
    /\ pc = "sr_spawn"
    /\ pc' = "b_exc"
    /\ childFailed' = childFailed \cup {phase}
    /\ UNCHANGED <<inputs, site, rsplit, cmd, proc, returncode, status, ints,
                   grace, flow, report>>

(* subprocess.run(check=True) returns, or raises CalledProcessError *)
SrReturn ==
    /\ pc = "sr_wait"
    /\ child = "dead"
    /\ returncode' = childCode
    /\ child' = "none"
    /\ pc' = IF childCode # 0 THEN "b_cpe" ELSE site
    /\ childFailed' = IF childCode # 0 THEN childFailed \cup {phase}
                      ELSE childFailed
    /\ UNCHANGED <<inputs, site, rsplit, cmd, childCode, nSpawned, status,
                   ints, grace, flow, report>>

(* lines 36-38 *)
BCalledProcessError ==
    /\ pc = "b_cpe"
    /\ Exit(returncode)
    /\ UNCHANGED <<inputs, site, rsplit, cmd, proc, returncode, ints, grace,
                   flow, report, childFailed>>

(* lines 39-41 and 42-44 *)
BHandlers ==
    /\ pc \in {"b_int", "b_exc"}
    /\ Exit(1)
    /\ UNCHANGED <<inputs, site, rsplit, cmd, proc, returncode, ints, grace,
                   flow, report, childFailed>>

BTry == {"b_chdir", "b_clean", "b_build", "b_run", "b_end", "sr_spawn",
         "sr_wait"}

----------------------------------------------------------------------------
(* build.py *)

Solutions == <<"MultiLLM.sln", "MultipleAIApp/MultipleAIApp.sln">>
TestProjects == <<"MultiLLM.Core.Tests/MultiLLM.Core.Tests.csproj">>
DemoProject == "MultiLLM.Demo/MultiLLM.Demo.csproj"
AppProject == "MultipleAIApp/MultipleAIApp/MultipleAIApp.csproj"
Paths == Range(Solutions) \cup Range(TestProjects) \cup {DemoProject, AppProject}

(* Python truth of args.run: None and "" are false *)
Truthy(r) == r \notin {"None", ""}

(* the call run_command(c, check=False) of phase ph, continuing at s *)
CallRunCommand(c, ph, s) ==
    /\ cmd' = c
    /\ phase' = ph
    /\ site' = s
    /\ pc' = "rc_spawn"

(* run_command, lines 19-26: the child is started *)
RcSpawnOk ==
    /\ pc = "rc_spawn"
    /\ Spawn(cmd)
    /\ pc' = "rc_wait"
    /\ UNCHANGED <<inputs, site, rsplit, returncode, status, ints, grace, flow,
                   report, childFailed>>

(* run_command catches CalledProcessError only: OSError reaches line 260 *)
RcSpawnFail ==
    /\ pc = "rc_spawn"
    /\ pc' = "m_exc"
    /\ childFailed' = childFailed \cup {phase}
    /\ UNCHANGED <<inputs, site, rsplit, cmd, proc, returncode, status, ints,
                   grace, flow, report>>

(* run_command, lines 27-31: with check=False every exit code is returned *)
RcReturn ==
    /\ pc = "rc_wait"
    /\ child = "dead"
    /\ returncode' = childCode
    /\ child' = "none"
    /\ pc' = site
    /\ childFailed' = IF childCode # 0 THEN childFailed \cup {phase}
                      ELSE childFailed
    /\ UNCHANGED <<inputs, site, rsplit, cmd, childCode, nSpawned, status,
                   ints, grace, flow, report>>

(* lines 184-204, before the try *)
MStart ==
    /\ pc = "m_start"
    /\ pc' = "m_version"
    /\ UNCHANGED <<inputs, site, rsplit, cmd, proc, returncode, status, ints,
                   grace, flow, report, childFailed>>

(* line 208 *)
MVersion ==
    /\ pc = "m_version"
    /\ CallRunCommand(<<"dotnet", "--version">>, "sdk", "m_version_ret")
    /\ UNCHANGED <<inputs, rsplit, proc, returncode, status, ints, grace, i,
                   loop_ok, build_success, test_success, run_success,
                   project_to_run, report, childFailed>>

(* lines 209-211 *)
MVersionRet ==
    /\ pc = "m_version_ret"
    /\ IF returncode # 0 THEN Exit(1) ELSE pc' = "m_clean" /\ UNCHANGED status
    /\ UNCHANGED <<inputs, site, rsplit, cmd, proc, returncode, ints, grace,
                   flow, report, childFailed>>

(* lines 214-215, and clean_project lines 43-67 *)
MClean ==
    /\ pc = "m_clean"
    /\ IF args.clean
       THEN pc' = "c_loop" /\ phase' = "clean" /\ i' = 1
       ELSE pc' = "m_build" /\ UNCHANGED <<phase, i>>
    /\ UNCHANGED <<inputs, site, rsplit, cmd, proc, returncode, status, ints,
                   grace, loop_ok, build_success, test_success, run_success,
                   project_to_run, report, childFailed>>

(* clean_project, lines 75-80 *)
CLoop ==
    /\ pc = "c_loop"
    /\ IF i > Len(Solutions)
       THEN pc' = "m_build" /\ UNCHANGED <<cmd, phase, site, i>>
       ELSE IF Solutions[i] \in fs
       THEN CallRunCommand(<<"dotnet", "clean", Solutions[i]>>, "clean", "c_next")
            /\ UNCHANGED i
       ELSE i' = i + 1 /\ UNCHANGED <<cmd, phase, site, pc>>
    /\ UNCHANGED <<inputs, rsplit, proc, returncode, status, ints, grace,
                   loop_ok, build_success, test_success, run_success,
                   project_to_run, report, childFailed>>

(* line 78: the result of run_command is dropped *)
CNext ==
    /\ pc = "c_next"
    /\ i' = i + 1
    /\ pc' = "c_loop"
    /\ UNCHANGED <<inputs, site, rsplit, cmd, proc, returncode, status, ints,
                   grace, phase, loop_ok, build_success, test_success,
                   run_success, project_to_run, report, childFailed>>

(* lines 217-223, and build_project lines 85-92 *)
MBuild ==
    /\ pc = "m_build"
    /\ build_success' = TRUE
    /\ test_success' = TRUE
    /\ run_success' = TRUE
    /\ IF ~args.skip_build
       THEN /\ pc' = "bp_loop"
            /\ phase' = "build"
            /\ i' = 1
            /\ loop_ok' = TRUE
            /\ attempted' = attempted \cup {"build"}
       ELSE pc' = "m_test" /\ UNCHANGED <<phase, i, loop_ok, attempted>>
    /\ UNCHANGED <<inputs, site, rsplit, cmd, proc, returncode, status, ints,
                   grace, project_to_run, summary, summaryPrinted, childFailed>>

(* build_project, lines 94-101 and 108-111 *)
BpLoop ==
    /\ pc = "bp_loop"
    /\ IF i > Len(Solutions)
       THEN pc' = "m_build_ret" /\ UNCHANGED <<cmd, phase, site, i>>
       ELSE IF Solutions[i] \in fs
       THEN CallRunCommand(<<"dotnet", "build", Solutions[i], "--configuration",
                             args.configuration, "--no-restore">>,
                           "build", "bp_next")
            /\ UNCHANGED i
       ELSE i' = i + 1 /\ UNCHANGED <<cmd, phase, site, pc>>
    /\ UNCHANGED <<inputs, rsplit, proc, returncode, status, ints, grace,
                   loop_ok, build_success, test_success, run_success,
                   project_to_run, report, childFailed>>

(* build_project, lines 103-107 *)
BpNext ==
    /\ pc = "bp_next"
    /\ loop_ok' = IF returncode # 0 THEN FALSE ELSE loop_ok
    /\ i' = i + 1
    /\ pc' = "bp_loop"
    /\ UNCHANGED <<inputs, site, rsplit, cmd, proc, returncode, status, ints,
                   grace, phase, build_success, test_success, run_success,
                   project_to_run, report, childFailed>>

(* lines 223-227 *)
MBuildRet ==
    /\ pc = "m_build_ret"
    /\ build_success' = loop_ok
    /\ IF ~loop_ok /\ ~Truthy(args.run)
       THEN Exit(1)
       ELSE pc' = "m_test" /\ UNCHANGED status
    /\ UNCHANGED <<inputs, site, rsplit, cmd, proc, returncode, ints, grace,
                   phase, i, loop_ok, test_success, run_success,
                   project_to_run, report, childFailed>>

(* line 230, and run_tests lines 116-122 *)
MTest ==
    /\ pc = "m_test"
    /\ IF args.test /\ build_success
       THEN /\ pc' = "rt_loop"
            /\ phase' = "test"
            /\ i' = 1
            /\ loop_ok' = TRUE
            /\ attempted' = attempted \cup {"test"}
       ELSE pc' = "m_run" /\ UNCHANGED <<phase, i, loop_ok, attempted>>
    /\ UNCHANGED <<inputs, site, rsplit, cmd, proc, returncode, status, ints,
                   grace, build_success, test_success, run_success,
                   project_to_run, summary, summaryPrinted, childFailed>>

(* run_tests, lines 124-131 and 138-141 *)
RtLoop ==
    /\ pc = "rt_loop"
    /\ IF i > Len(TestProjects)
       THEN pc' = "m_test_ret" /\ UNCHANGED <<cmd, phase, site, i>>
       ELSE IF TestProjects[i] \in fs
       THEN CallRunCommand(<<"dotnet", "test", TestProjects[i], "--no-build",
                             "--verbosity", "normal">>, "test", "rt_next")
            /\ UNCHANGED i
       ELSE i' = i + 1 /\ UNCHANGED <<cmd, phase, site, pc>>
    /\ UNCHANGED <<inputs, rsplit, proc, returncode, status, ints, grace,
                   loop_ok, build_success, test_success, run_success,
                   project_to_run, report, childFailed>>

(* run_tests, lines 133-137 *)
RtNext ==
    /\ pc = "rt_next"
    /\ loop_ok' = IF returncode # 0 THEN FALSE ELSE loop_ok
    /\ i' = i + 1
    /\ pc' = "rt_loop"
    /\ UNCHANGED <<inputs, site, rsplit, cmd, proc, returncode, status, ints,
                   grace, phase, build_success, test_success, run_success,
                   project_to_run, report, childFailed>>

(* lines 231-235 *)
MTestRet ==
    /\ pc = "m_test_ret"
    /\ test_success' = loop_ok
    /\ IF ~loop_ok /\ ~Truthy(args.run)
       THEN Exit(1)
       ELSE pc' = "m_run" /\ UNCHANGED status
    /\ UNCHANGED <<inputs, site, rsplit, cmd, proc, returncode, ints, grace,
                   phase, i, loop_ok, build_success, run_success,
                   project_to_run, report, childFailed>>

RunnableNames == {"demo", "app"}
Runnable(n) == IF n = "demo" THEN DemoProject ELSE AppProject

(* faulty variant: runs whenever a run was requested *)
RunGuardIgnoringBuild == args.run # "None"
(* line 238: args.run is not None and build_success *)
RunGuard == args.run # "None" /\ build_success

(* lines 238-240 *)
MRun ==
    /\ pc = "m_run"
    /\ IF RunGuard
       THEN /\ pc' = "ra_select"
            /\ phase' = "run"
            /\ attempted' = attempted \cup {"run"}
       ELSE pc' = "m_summary" /\ UNCHANGED <<phase, attempted>>
    /\ UNCHANGED <<inputs, site, rsplit, cmd, proc, returncode, status, ints,
                   grace, i, loop_ok, build_success, test_success, run_success,
                   project_to_run, summary, summaryPrinted, childFailed>>

(* run_application, lines 154-166, with project_name of line 239 *)
RaSelect ==
    /\ pc = "ra_select"
    /\ IF Truthy(args.run) /\ args.run \in RunnableNames
       THEN /\ project_to_run' = Runnable(args.run)
            /\ pc' = "ra_exists"
            /\ UNCHANGED run_success
       ELSE IF DemoProject \in fs
       THEN /\ project_to_run' = DemoProject
            /\ pc' = "ra_exists"
            /\ UNCHANGED run_success
       ELSE IF AppProject \in fs
       THEN /\ project_to_run' = AppProject
            /\ pc' = "ra_exists"
            /\ UNCHANGED run_success
       ELSE /\ run_success' = FALSE
            /\ pc' = "m_run_ret"
            /\ UNCHANGED project_to_run
    /\ UNCHANGED <<inputs, site, rsplit, cmd, proc, returncode, status, ints,
                   grace, phase, i, loop_ok, build_success, test_success,
                   report, childFailed>>

(* run_application, lines 168-174 and 177-179 *)
RaExists ==
    /\ pc = "ra_exists"
    /\ IF project_to_run \in fs
       THEN /\ CallRunCommand(<<"dotnet", "run", "--project", project_to_run,
                                "--no-build">>, "run", "ra_ret")
            /\ UNCHANGED run_success
       ELSE /\ run_success' = FALSE
            /\ pc' = "m_run_ret"
            /\ UNCHANGED <<cmd, phase, site>>
    /\ UNCHANGED <<inputs, rsplit, proc, returncode, status, ints, grace, i,
                   loop_ok, build_success, test_success, project_to_run,
                   report, childFailed>>

(* run_application, line 176 *)
RaRet ==
    /\ pc = "ra_ret"
    /\ run_success' = (returncode = 0)
    /\ pc' = "m_run_ret"
    /\ UNCHANGED <<inputs, site, rsplit, cmd, proc, returncode, status, ints,
                   grace, phase, i, loop_ok, build_success, test_success,
                   project_to_run, report, childFailed>>

(* lines 241-242 *)
MRunRet ==
    /\ pc = "m_run_ret"
    /\ pc' = "m_summary"
    /\ UNCHANGED <<inputs, site, rsplit, cmd, proc, returncode, status, ints,
                   grace, flow, report, childFailed>>

(* lines 246-251: one line per flag, whatever was executed *)
SummaryLines ==
    (IF ~args.skip_build THEN {<<"build", build_success>>} ELSE {})
    \cup (IF args.test THEN {<<"test", test_success>>} ELSE {})
    \cup (IF args.run # "None" THEN {<<"run", run_success>>} ELSE {})

(* lines 245-251 *)
MSummary ==
    /\ pc = "m_summary"
    /\ summary' = SummaryLines
    /\ summaryPrinted' = TRUE
    /\ pc' = "m_exit"
    /\ UNCHANGED <<inputs, site, rsplit, cmd, proc, returncode, status, ints,
                   grace, flow, attempted, childFailed>>

(* line 254 *)
ExitFailure == ~build_success \/ (args.test /\ ~test_success)

(* lines 254-255, or main returning *)
MExit ==
    /\ pc = "m_exit"
    /\ Exit(IF ExitFailure THEN 1 ELSE 0)
    /\ UNCHANGED <<inputs, site, rsplit, cmd, proc, returncode, ints, grace,
                   flow, report, childFailed>>

(* lines 257-259 and 260-262 *)
MHandlers ==
    /\ pc \in {"m_int", "m_exc"}
    /\ Exit(1)
    /\ UNCHANGED <<inputs, site, rsplit, cmd, proc, returncode, ints, grace,
                   flow, report, childFailed>>

MUnprotected == {"m_start", "m_int", "m_exc"}

----------------------------------------------------------------------------
(* The environment *)

(* the child exits by itself, with any code *)
ChildExit ==
    /\ child = "live"
    /\ child' = "dead"
    /\ childCode' \in ChildCodes
    /\ UNCHANGED <<inputs, site, rsplit, cmd, nSpawned, returncode, ctl, ints,
                   grace, flow, report, childFailed>>

Finished == pc \in {"exited", "uncaught"}

(* where KeyboardInterrupt raised at position p is caught:                  *)
(*   r.py      inner handler line 55, outer handler line 68                 *)
(*   b.py      line 39;  build.py  line 257                                 *)
(* raised outside every try, or inside a handler, it is not caught          *)
Handler(p) ==
    IF script = "r"
    THEN IF p \in RInnerTry THEN "r_stopping"
         ELSE IF p \in RInnerHandler \cup ROuterTry THEN "r_int"
         ELSE "uncaught"
    ELSE IF script = "b"
    THEN IF p \in BTry THEN "b_int" ELSE "uncaught"
    ELSE IF p \in MUnprotected THEN "uncaught" ELSE "m_int"

(* subprocess.run kills its child when an exception leaves its wait *)
InSubprocessRun == pc \in {"sr_wait", "rc_wait"}

(* the user sends an interrupt: KeyboardInterrupt is raised where the      *)
(* wrapper stands                                                          *)
Interrupt ==
    /\ ~Finished
    /\ nInterrupts < MaxInterrupts
    /\ nInterrupts' = nInterrupts + 1
    /\ firstInt' = IF nInterrupts = 0
                   THEN [pc |-> pc, phase |-> phase, child |-> child]
                   ELSE firstInt
    /\ pc' = Handler(pc)
    /\ IF InSubprocessRun /\ child = "live"
       THEN child' = "dead" /\ childCode' = -9
       ELSE UNCHANGED <<child, childCode>>
    /\ UNCHANGED <<inputs, site, rsplit, cmd, nSpawned, returncode, status,
                   grace, flow, report, childFailed>>

----------------------------------------------------------------------------

TokenLists == UNION {[1..n -> Tokens] : n \in 0..MaxLen}
RunValues == {"None", "", "demo", "app", "web"}

InitCommon ==
    /\ site = "none"
    /\ script_args = <<>>
    /\ app_args = <<>>
    /\ cmd = <<>>
    /\ child = "none"
    /\ childCode = 0
    /\ returncode = 0
    /\ status = 0
    /\ nInterrupts = 0
    /\ firstInt = [pc |-> "none", phase |-> "none", child |-> "none"]
    /\ terminates = 0
    /\ graceWaits = 0
    /\ kills = 0
    /\ elapsed = 0
    /\ graceExpired = FALSE
    /\ nSpawned = 0
    /\ phase = "setup"
    /\ i = 1
    /\ loop_ok = TRUE
    /\ build_success = TRUE
    /\ test_success = TRUE
    /\ run_success = TRUE
    /\ project_to_run = "none"
    /\ attempted = {}
    /\ childFailed = {}
    /\ summary = {}
    /\ summaryPrinted = FALSE

InitR ==
    /\ script = "r"
    /\ argv \in {<<"r.py">> \o t : t \in TokenLists}
    /\ args = NoArgs
    /\ fs = {}
    /\ pc = "r_split"

InitB ==
    /\ script = "b"
    /\ argv = <<"b.py">>
    /\ args \in [clean : BOOLEAN, run : BOOLEAN]
    /\ fs = {}
    /\ pc = "b_start"

InitBuild ==
    /\ script = "build"
    /\ argv = <<"build.py">>
    /\ args \in [clean : BOOLEAN, test : BOOLEAN, run : RunValues,
                 skip_build : BOOLEAN, configuration : {"Debug", "Release"}]
    /\ fs \in SUBSET Paths
    /\ pc = "m_start"

Init == InitCommon /\ (InitR \/ InitB \/ InitBuild)

Next ==
    \/ RSplit \/ RChdir \/ RCmd \/ RPopenOk \/ RPopenFail \/ REnterTry
    \/ RWaitReturn \/ RCheck \/ RStopping \/ RTerminate \/ RGraceEnter
    \/ RGraceTick \/ RGraceReturn \/ RGraceExpire \/ RKill \/ RExit0
    \/ ROuterHandlers
    \/ BStart \/ BChdir \/ BClean \/ BBuild \/ BRun \/ BEnd
    \/ SrSpawnOk \/ SrSpawnFail \/ SrReturn \/ BCalledProcessError \/ BHandlers
    \/ RcSpawnOk \/ RcSpawnFail \/ RcReturn
    \/ MStart \/ MVersion \/ MVersionRet \/ MClean \/ CLoop \/ CNext
    \/ MBuild \/ BpLoop \/ BpNext \/ MBuildRet \/ MTest \/ RtLoop \/ RtNext
    \/ MTestRet \/ MRun \/ RaSelect \/ RaExists \/ RaRet \/ MRunRet
    \/ MSummary \/ MExit \/ MHandlers
    \/ ChildExit \/ Interrupt

Spec == Init /\ [][Next]_vars

----------------------------------------------------------------------------
(* Properties *)

RSplitDone == script = "r" /\ pc \notin {"r_split", "uncaught"}
RCmdBuilt == script = "r" /\ cmd # <<>>

(* C1: r.py splits its tokens (sys.argv without the script name) at the    *)
(* first '--': without a '--' the script arguments are all the tokens and  *)
(* the application arguments are empty; otherwise the tokens are the       *)
(* script arguments, one '--', and the application arguments, and the      *)
(* script arguments hold no '--' (so every later '--' stays, literally,    *)
(* among the application arguments).                                       *)
C1_ArgumentSplitting ==
    RSplitDone =>
        LET tokens == Tail(argv)
        IN  IF Sep \notin Range(tokens)
            THEN script_args = tokens /\ app_args = <<>>
            ELSE /\ tokens = script_args \o <<Sep>> \o app_args
                 /\ Sep \notin Range(script_args)

C1_Witness ==
    /\ script = "r"
    /\ pc = "r_chdir"
    /\ Tail(argv) = <<"x", Sep, Sep>>
    /\ script_args = <<"x">>
    /\ app_args = <<Sep>>

(* C2: the command r.py constructs is the fixed prefix, the script         *)
(* arguments, and then '--' with the application arguments; no '--' is in  *)
(* the command when there are no application arguments.                    *)
C2_InvocationConstruction ==
    RCmdBuilt =>
        /\ cmd = RunPrefix \o script_args
                   \o (IF app_args = <<>> THEN <<>> ELSE <<Sep>> \o app_args)
        /\ app_args = <<>> => Sep \notin Range(cmd)

C2_Witness ==
    /\ script = "r"
    /\ child = "live"
    /\ Tail(argv) = <<"-v", Sep>>
    /\ cmd = RunPrefix \o <<"-v">>

(* C3, as claimed: '--' is in the constructed command at most once, and    *)
(* only if there is a pass-through argument.                               *)
C3_SeparatorAtMostOnce ==
    RCmdBuilt =>
        /\ Count(Sep, cmd) <= 1
        /\ Count(Sep, cmd) >= 1 => app_args # <<>>

(* C3, amended: '--' is in the constructed command only if there is a      *)
(* pass-through argument, and then once as the marker and once more for    *)
(* every pass-through argument that is itself '--'.                        *)
C3_SeparatorCount ==
    RCmdBuilt =>
        Count(Sep, cmd) = IF app_args = <<>> THEN 0
                          ELSE 1 + Count(Sep, app_args)

C3_Witness ==
    /\ script = "r"
    /\ child = "live"
    /\ app_args = <<"x", Sep>>
    /\ Count(Sep, cmd) = 2

(* C4: r.py's stop on interrupt is one escalation: a graceful request      *)
(* at most once and only for an interrupt that arrived inside the wait on  *)
(* the child, then one grace period of GraceTimeout seconds, then a forced *)
(* kill at most once and only after the grace period ran out with the      *)
(* child alive; an interrupt that found the wrapper blocked on a live      *)
(* child, with none after it, ends with exactly one request, one grace     *)
(* period, a kill iff the period ran out, and exit status 0.               *)
C4_Escalation ==
    script = "r" =>
        /\ terminates <= 1 /\ graceWaits <= 1 /\ kills <= 1
        /\ terminates = 1 => firstInt.pc \in RInnerTry
        /\ graceWaits = 1 => terminates = 1
        /\ graceExpired => graceWaits = 1 /\ elapsed = GraceTimeout
        /\ kills = 1 => graceExpired
        /\ pc = "r_kill" => graceExpired
        /\ (/\ pc = "exited"
            /\ nInterrupts = 1
            /\ firstInt.pc = "r_wait"
            /\ firstInt.child = "live")
           => /\ terminates = 1
              /\ graceWaits = 1
              /\ kills = 1 <=> graceExpired
              /\ status = 0

C4_ExpiryStep ==
    (graceExpired' /\ ~graceExpired) =>
        (child = "live" /\ elapsed = GraceTimeout /\ terminates = 1)

C4_RunLifecycle == [](C4_Escalation) /\ [][C4_ExpiryStep]_vars

C4_Witness ==
    /\ script = "r"
    /\ pc = "exited"
    /\ nInterrupts = 1
    /\ firstInt.pc = "r_wait"
    /\ firstInt.child = "live"
    /\ terminates = 1
    /\ kills = 1
    /\ status = 0

(* C5: once a wrapper has exited after a user interrupt, its status is 0   *)
(* if the interrupt arrived while a child of the run phase was live, and   *)
(* it is 1 exactly if the interrupt arrived while no child existed; in     *)
(* r.py and in the run phase of b.py and build.py, however many            *)
(* interrupts followed the first.                                          *)
C5_InterruptExitStatus ==
    (/\ pc = "exited"
     /\ nInterrupts >= 1
     /\ script = "r" \/ firstInt.phase = "run") =>
        /\ (firstInt.phase = "run" /\ firstInt.child = "live") => status = 0
        /\ status = 1 <=> firstInt.child = "none"

BuildFailed == script = "build" /\ "build" \in attempted /\ ~build_success

(* C6, as claimed: in build.py, when the build was executed and failed     *)
(* and a run was requested, the run phase is still attempted and the exit  *)
(* status is non-zero.                                                     *)
C6_RunAttemptedAfterFailedBuild ==
    (BuildFailed /\ args.run # "None" /\ pc = "exited" /\ nInterrupts = 0) =>
        ("run" \in attempted /\ status # 0)

(* C6, amended: in build.py, when the build was executed and failed and a  *)
(* run was requested, the run phase is never attempted, and the wrapper    *)
(* exits with a failure status (1 wherever it calls sys.exit).             *)
C6_FailedBuildSkipsRun ==
    (BuildFailed /\ args.run # "None") =>
        /\ "run" \notin attempted
        /\ pc \notin {"ra_select", "ra_exists", "ra_ret", "m_run_ret"}
        /\ pc = "exited" => status = 1

C6_Witness ==
    /\ BuildFailed
    /\ args.run = "demo"
    /\ pc = "exited"
    /\ nInterrupts = 0
    /\ summaryPrinted
    /\ status = 1

Phases == {"build", "test", "run"}

(* C7: in build.py the exit status is non-zero iff a phase that was        *)
(* executed (build, test or run) failed, a phase failing iff one of its    *)
(* children exited non-zero or could not be spawned.  Stated for the runs  *)
(* without an interrupt in which the SDK check and the clean succeeded.    *)
C7_AggregateExitStatus ==
    (/\ script = "build"
     /\ pc = "exited"
     /\ nInterrupts = 0
     /\ childFailed \cap {"sdk", "clean"} = {})
    => (status # 0 <=> (childFailed \cap attempted \cap Phases) # {})

(* C8: in build.py the summary has a line for a phase iff that phase was   *)
(* executed.                                                               *)
C8_SummaryOfExecutedPhases ==
    (script = "build" /\ summaryPrinted) =>
        {l[1] : l \in summary} = attempted

(* C9: in build.py a child that cannot be spawned or exits non-zero in the *)
(* clean, build, test or run phase never ends the wrapper before the       *)
(* summary, and the failure shows in the summary (for build, test and run, *)
(* which have a line) and in a non-zero exit status.                       *)
C9_FailureRecovered ==
    (/\ script = "build"
     /\ pc = "exited"
     /\ nInterrupts = 0
     /\ "sdk" \notin childFailed
     /\ childFailed # {})
    => /\ summaryPrinted
       /\ status # 0
       /\ \A ph \in childFailed \cap Phases : <<ph, FALSE>> \in summary

(* C10: r.py has at most one live child, and when the wrapper is gone the  *)
(* child it spawned has exited or has been killed.                         *)
C10_ChildReleased ==
    script = "r" =>
        /\ nSpawned <= 1
        /\ Finished => child # "live"

====
